---- MODULE Spec2Model ----
(***************************************************************************)
(* A model of the Telegram long-polling client of src/src/lib.rs: the poll *)
(* loop handle_telegram, the transport call_api and the payload shaping    *)
(* resp_json.  One action is one run of the loop's future from one await   *)
(* point to the next; the remote service and the message handler are the   *)
(* environment and answer nondeterministically.                            *)
(***************************************************************************)
EXTENDS Integers, Sequences, FiniteSets, TLC

(* ---------------------------- bounds ----------------------------------- *)
\* update ids the remote service hands out are 0 .. MaxId
MaxId == 2
\* a getUpdates result holds at most MaxBatch updates
MaxBatch == 2
\* the handler returns at most MaxResps responses for one update
MaxResps == 2
\* chat ids and reply-to ids of the resp_json inputs are -1 .. MaxChat
MaxChat == 2

(* ------------------------- program constants --------------------------- *)
\* the long-poll timeout sent with every getUpdates request
LongPollTimeout == 120

(* ------------------------- JSON and Option ----------------------------- *)
\* serde_json::Value, by variant
JNull == [t |-> "null", v |-> 0]
JBool(b) == [t |-> "bool", v |-> b]
JInt(n) == [t |-> "int", v |-> n]
JFloat(s) == [t |-> "float", v |-> s]
JStr(s) == [t |-> "str", v |-> s]
JArr(a) == [t |-> "array", v |-> a]

\* Option<T>: None is the empty sequence, Some(x) the one-element sequence
None == <<>>
Some(x) == <<x>>

\* Value::as_i64: Some only for an integer number
as_i64(j) == IF j.t = "int" THEN Some(j.v) ELSE None
\* Value::as_bool: Some only for a boolean
as_bool(j) == IF j.t = "bool" THEN Some(j.v) ELSE None
\* Value::is_null
is_null(j) == j.t = "null"
\* Option<i64>::unwrap_or_default
unwrap_or_default(o) == IF o = None THEN 0 ELSE o[1]
\* Option<bool>::unwrap_or
unwrap_or(o, d) == IF o = None THEN d ELSE o[1]
\* mutant: the cursor is assigned the update id
max_Assign(a, b) == b

\* i64::max
max(a, b) == IF a >= b THEN a ELSE b

\* anyhow::Result: Ok(value) or Err(chain of messages, outermost context first)
Ok(x) == [ok |-> TRUE, val |-> x, err |-> <<>>]
Err(e) == [ok |-> FALSE, val |-> JNull, err |-> e]
\* Result::context / Context::context: a message in front of the error chain
context(res, msg) == IF res.ok THEN res ELSE Err(<<msg>> \o res.err)

(* ------------------------------ call_api ------------------------------- *)
\* What comes back from the HTTP exchange: a transport failure (send_async,
\* or a body that is not JSON), or a JSON envelope.
TransportError == [transport |-> FALSE, ok |-> JNull, result |-> JNull, error_code |-> JNull]
Envelope(ok, result, error_code) ==
    [transport |-> TRUE, ok |-> ok, result |-> result, error_code |-> error_code]

\* mutant: a missing error code is reported as code 0
call_api_DefaultCode(raw_res) ==
    IF ~raw_res.transport THEN Err(<<"transport error">>)
    ELSE IF unwrap_or(as_bool(raw_res.ok), FALSE) THEN Ok(raw_res.result)
    ELSE Err(<<"telegram failed with error code",
               unwrap_or_default(as_i64(raw_res.error_code))>>)

\* mutant: the ok field is not looked at
call_api_IgnoresOk(raw_res) ==
    IF ~raw_res.transport THEN Err(<<"transport error">>)
    ELSE Ok(raw_res.result)

call_api(raw_res) ==
    IF ~raw_res.transport THEN Err(<<"transport error">>)
    ELSE IF unwrap_or(as_bool(raw_res.ok), FALSE) THEN Ok(raw_res.result)
    ELSE IF as_i64(raw_res.error_code) = None
         THEN Err(<<"could not parse error code as integer">>)
         ELSE Err(<<"telegram failed with error code", as_i64(raw_res.error_code)[1]>>)

(* ------------------------------ resp_json ------------------------------ *)
Response(text, chat_id, reply_to) ==
    [text |-> text, chat_id |-> chat_id, reply_to_message_id |-> reply_to]

\* mutant: a reply-to id of 0 is taken for an absent one
resp_json_ZeroIsNone(resp) ==
    IF resp.reply_to_message_id # None /\ resp.reply_to_message_id[1] # 0
    THEN [chat_id |-> resp.chat_id, text |-> resp.text,
          reply_to_message_id |-> resp.reply_to_message_id[1]]
    ELSE [chat_id |-> resp.chat_id, text |-> resp.text]

resp_json(resp) ==
    IF resp.reply_to_message_id # None
    THEN [chat_id |-> resp.chat_id, text |-> resp.text,
          reply_to_message_id |-> resp.reply_to_message_id[1]]
    ELSE [chat_id |-> resp.chat_id, text |-> resp.text]

\* responses.iter().map(|resp| resp_json(resp)).collect()
JsonResps(rs) == [i \in 1..Len(rs) |-> resp_json(rs[i])]

\* serde_json::from_value::<Vec<Value>>: only an array deserializes
from_value(v) ==
    IF v.t = "array" THEN Ok(v.v) ELSE Err(<<"invalid type, expected a sequence">>)

(* ------------------------- the environment ----------------------------- *)
BoundedSeq(S, n) == UNION {[1..k -> S] : k \in 0..n}

\* update_id as the remote may send it: missing, not an integer, or an integer
IdValues == {JNull, JStr("x")} \cup {JInt(n) : n \in 0..MaxId}
\* message.text: missing or null, the empty string, a text
TextValues == {JNull, JStr(""), JStr("hi")}
Updates == {[update_id |-> i, message |-> [text |-> t]] : i \in IdValues, t \in TextValues}
BatchesUpTo(n) == BoundedSeq(Updates, n)
Batches == BatchesUpTo(MaxBatch)

\* what getUpdates may answer: no answer, a rejection or a malformed envelope
\* (with or without a result beside it), a result that is no array, a batch
FetchRepliesOf(batches) ==
    {TransportError,
     Envelope(JBool(FALSE), JNull, JInt(403)),
     Envelope(JBool(FALSE), JNull, JNull),
     Envelope(JBool(TRUE), JNull, JNull)}
    \cup {Envelope(JBool(TRUE), JArr(b), JNull) : b \in batches}
    \cup {Envelope(JBool(FALSE), JArr(b), JInt(403)) : b \in batches}
FetchReplies == FetchRepliesOf(Batches)

\* the envelope without its result
EnvelopeHead(answer) ==
    [transport |-> answer.transport, ok |-> answer.ok, error_code |-> answer.error_code]

\* what sendMessage may answer
SendReplies ==
    {TransportError,
     Envelope(JBool(TRUE), JNull, JNull),
     Envelope(JBool(FALSE), JNull, JInt(400))}

\* what the message handler may resolve to
Resps == {Response("a", 1, None), Response("b", 1, Some(0))}
HandlerResultsUpTo(n) ==
    {Err(<<"handler error">>)} \cup {Ok(v) : v \in BoundedSeq(Resps, n)}
HandlerResults == HandlerResultsUpTo(MaxResps)

(* ------------------------------ state ---------------------------------- *)
VARIABLES
    counter,       \* the update cursor (let mut counter)
    pc,            \* where the loop's future is suspended
    request,       \* the API call in flight, None when there is none
    updates,       \* the updates the for loop has not reached yet
    update,        \* the update handed to the handler, None outside it
    responses,     \* what the handler returned for the last handled update
    json_resps,    \* the payloads the inner for loop has not sent yet
    outcome,       \* what fallible.timeout(..) resolved to in the last cycle
    startCounter,  \* history: the cursor when the current cycle began
    seen,          \* history: highest integer update id the current cycle reached
    advanced,      \* history: highest integer update id any cycle reached
    sendLog,       \* history: sendMessage payloads issued for the last handled update
    acked,         \* history: how many of them completed successfully
    invocations,   \* history: handler invocations of the current cycle
    fetch,         \* history: the head of the envelope getUpdates answered with
    reply,         \* the answer to getUpdates on the wire, None when there is none
    texts,         \* history: updates with text in the answer the current cycle got
    skipped,       \* history: updates the current cycle's for loop passed over
    failure,       \* history: what failed in the current cycle: handler, send or none
    outstanding,   \* history: operations issued and neither completed nor dropped
    handled,       \* history: ids the handler was invoked for, once and again
    dups,          \* history: ids the remote returned twice within one answer
    raw_res,       \* call_api's parsed reply (the pure-function specifications)
    api_res        \* call_api's return value (the pure-function specifications)

vars == <<counter, pc, request, updates, update, responses, json_resps, outcome,
          startCounter, seen, advanced, sendLog, acked, invocations, fetch,
          reply, texts, skipped, failure, outstanding, handled, dups,
          raw_res, api_res>>

\* Option<Result<(), Error>> of the cycle, Running before it resolves
Running == [kind |-> "running", err |-> <<>>]
SomeOk == [kind |-> "ok", err |-> <<>>]
SomeErr(e) == [kind |-> "err", err |-> e]
TimedOut == [kind |-> "timeout", err |-> <<>>]

Init ==
    /\ counter = 0
    /\ pc = "loop"
    /\ request = None
    /\ updates = <<>>
    /\ update = None
    /\ responses = <<>>
    /\ json_resps = <<>>
    /\ outcome = Running
    /\ startCounter = 0
    /\ seen = None
    /\ advanced = None
    /\ sendLog = <<>>
    /\ acked = 0
    /\ invocations = 0
    /\ fetch = None
    /\ reply = None
    /\ texts = 0
    /\ skipped = 0
    /\ failure = "none"
    /\ outstanding = 0
    /\ handled = None
    /\ dups = None
    /\ raw_res = TransportError
    /\ api_res = Ok(JNull)

(* ----------------------------- the for loop ---------------------------- *)
\* mutant: an empty text counts as no text
HasTextNonEmpty(u) == ~is_null(u.message.text) /\ u.message.text # JStr("")

HasText(u) == ~is_null(u.message.text)
IdOf(u) == unwrap_or_default(as_i64(u.update_id))

\* mutant: the cursor is advanced only once the update has been handled
RECURSIVE for_updates_AdvanceLate(_, _)
for_updates_AdvanceLate(c, ups) ==
    IF ups = <<>>
    THEN [counter |-> c, updates |-> <<>>, update |-> None, awaiting |-> FALSE]
    ELSE LET u == Head(ups)
         IN IF HasText(u)
            THEN [counter |-> c, updates |-> Tail(ups), update |-> Some(u), awaiting |-> TRUE]
            ELSE for_updates_AdvanceLate(max(c, IdOf(u)), Tail(ups))

\* mutant: an update without text does not advance the cursor
RECURSIVE for_updates_SkipFirst(_, _)
for_updates_SkipFirst(c, ups) ==
    IF ups = <<>>
    THEN [counter |-> c, updates |-> <<>>, update |-> None, awaiting |-> FALSE]
    ELSE LET u == Head(ups)
         IN IF HasText(u)
            THEN [counter |-> max(c, IdOf(u)), updates |-> Tail(ups), update |-> Some(u),
                  awaiting |-> TRUE]
            ELSE for_updates_SkipFirst(c, Tail(ups))

\* mutant: an update without text ends the for loop
for_updates_BreakOnSkip(c, ups) ==
    IF ups = <<>>
    THEN [counter |-> c, updates |-> <<>>, update |-> None, awaiting |-> FALSE]
    ELSE LET u == Head(ups)
             c2 == max(c, IdOf(u))
         IN IF HasText(u)
            THEN [counter |-> c2, updates |-> Tail(ups), update |-> Some(u), awaiting |-> TRUE]
            ELSE [counter |-> c2, updates |-> <<>>, update |-> None, awaiting |-> FALSE]

\* The for loop over the fetched updates, run from its head to the next await
\* (the handler call for a text update) or to its end.
RECURSIVE for_updates(_, _)
for_updates(c, ups) ==
    IF ups = <<>>
    THEN [counter |-> c, updates |-> <<>>, update |-> None, awaiting |-> FALSE]
    ELSE LET u == Head(ups)
             c2 == max(c, IdOf(u))
         IN IF HasText(u)
            THEN [counter |-> c2, updates |-> Tail(ups), update |-> Some(u), awaiting |-> TRUE]
            ELSE for_updates(c2, Tail(ups))

\* integer update ids of the updates for_updates(c, ups) went over
Reached(ups, f) ==
    {ups[i].update_id.v : i \in {j \in 1..(Len(ups) - Len(f.updates)) : ups[j].update_id.t = "int"}}

\* the highest of a high-water mark (None before any id) and the ids S
HighWater(o, S) ==
    LET T == S \cup {o[i] : i \in 1..Len(o)}
    IN IF T = {} THEN None ELSE Some(CHOOSE m \in T : \A x \in T : x <= m)

\* mutant: an abandoned cycle puts the cursor back where the cycle began
CycleEndsRollback(o) ==
    /\ pc' = "loop"
    /\ outcome' = o
    /\ request' = None
    /\ updates' = <<>>
    /\ update' = None
    /\ json_resps' = <<>>
    /\ counter' = IF o.kind = "ok" THEN counter ELSE startCounter
    /\ UNCHANGED <<seen, advanced, invocations, skipped, handled>>

\* mutant: an error leaves the loop instead of being logged
CycleEndsPropagates(o) ==
    /\ pc' = IF o.kind = "err" THEN "exit" ELSE "loop"
    /\ outcome' = o
    /\ request' = None
    /\ updates' = <<>>
    /\ update' = None
    /\ json_resps' = <<>>
    /\ UNCHANGED <<counter, seen, advanced, invocations, skipped, handled>>

\* the cycle's future resolves (Some(Ok), Some(Err)) or is dropped (None)
CycleEnds(o) ==
    /\ pc' = "loop"
    /\ outcome' = o
    /\ request' = None
    /\ updates' = <<>>
    /\ update' = None
    /\ json_resps' = <<>>
    /\ UNCHANGED <<counter, seen, advanced, invocations, skipped, handled>>

\* the record of handler invocations by update id, where one is kept: the id
\* of u joins once, and again when it was there already
Invoked(h, u) ==
    IF h = None \/ u.update_id.t # "int" THEN h
    ELSE Some([once |-> h[1].once \cup {u.update_id.v},
               again |-> h[1].again \cup (h[1].once \cap {u.update_id.v})])

\* run the for loop on from its head with the remaining updates ups
ForLoop(ups) ==
    LET f == for_updates(counter, ups) IN
    /\ counter' = f.counter
    /\ seen' = HighWater(seen, Reached(ups, f))
    /\ advanced' = HighWater(advanced, Reached(ups, f))
    /\ json_resps' = <<>>
    /\ request' = None
    /\ updates' = f.updates
    /\ update' = f.update
    /\ IF f.awaiting
       THEN /\ pc' = "handler" /\ outcome' = outcome /\ invocations' = invocations + 1
            /\ skipped' = skipped + (Len(ups) - Len(f.updates)) - 1
            /\ handled' = Invoked(handled, f.update[1])
       ELSE /\ pc' = "loop" /\ outcome' = SomeOk /\ invocations' = invocations
            /\ skipped' = skipped + (Len(ups) - Len(f.updates))
            /\ handled' = handled

\* mutant: the payloads are taken from the back
SendMessageLastFirst(payloads, log) ==
    /\ pc' = "sendMessage"
    /\ request' = Some([method |-> "sendMessage", args |-> payloads[Len(payloads)]])
    /\ json_resps' = SubSeq(payloads, 1, Len(payloads) - 1)
    /\ sendLog' = Append(log, payloads[Len(payloads)])
    /\ UNCHANGED <<counter, updates, update, outcome, seen, advanced, invocations,
                   skipped, handled>>

\* the inner for loop takes the next payload and issues its sendMessage
SendMessage(payloads, log) ==
    /\ pc' = "sendMessage"
    /\ request' = Some([method |-> "sendMessage", args |-> Head(payloads)])
    /\ json_resps' = Tail(payloads)
    /\ sendLog' = Append(log, Head(payloads))
    /\ UNCHANGED <<counter, updates, update, outcome, seen, advanced, invocations,
                   skipped, handled>>

(* ------------------------------ actions -------------------------------- *)
\* mutant: the request asks from the cursor itself
GetUpdatesSameOffset ==
    /\ pc = "loop"
    /\ pc' = "getUpdates"
    /\ request' = Some([method |-> "getUpdates",
                        args |-> [timeout |-> LongPollTimeout,
                                  offset |-> counter,
                                  allowed_updates |-> <<>>]])
    /\ outcome' = Running
    /\ startCounter' = counter
    /\ seen' = None
    /\ responses' = <<>>
    /\ sendLog' = <<>>
    /\ acked' = 0
    /\ invocations' = 0
    /\ fetch' = None
    /\ texts' = 0
    /\ skipped' = 0
    /\ failure' = "none"
    /\ outstanding' = outstanding + 1
    /\ UNCHANGED <<counter, updates, update, json_resps, advanced, reply, handled,
                   dups, raw_res, api_res>>

\* loop head: issue getUpdates (lines 68-76)
GetUpdates ==
    /\ pc = "loop"
    /\ pc' = "getUpdates"
    /\ request' = Some([method |-> "getUpdates",
                        args |-> [timeout |-> LongPollTimeout,
                                  offset |-> counter + 1,
                                  allowed_updates |-> <<>>]])
    /\ outcome' = Running
    /\ startCounter' = counter
    /\ seen' = None
    /\ responses' = <<>>
    /\ sendLog' = <<>>
    /\ acked' = 0
    /\ invocations' = 0
    /\ fetch' = None
    /\ texts' = 0
    /\ skipped' = 0
    /\ failure' = "none"
    /\ outstanding' = outstanding + 1
    /\ UNCHANGED <<counter, updates, update, json_resps, advanced, reply, handled,
                   dups, raw_res, api_res>>

\* the future is suspended at an await: one operation is outstanding
Suspended(at) == IF at \in {"getUpdates", "handler", "sendMessage"} THEN 1 ELSE 0

\* how many updates of a getUpdates answer carry a message text
TextCount(answer) ==
    IF answer.result.t # "array" THEN 0
    ELSE Cardinality({i \in 1..Len(answer.result.v) :
                        answer.result.v[i].message.text # JNull})

\* the integer update ids a getUpdates answer holds more than once
DupIds(answer) ==
    IF answer.result.t # "array" THEN {}
    ELSE LET b == answer.result.v
         IN {b[i].update_id.v : i \in {k \in 1..Len(b) :
                 /\ b[k].update_id.t = "int"
                 /\ \E j \in 1..Len(b) : j # k /\ b[j].update_id = b[k].update_id}}

\* the remote service answers the long poll with one of replies
RemoteAnswers(replies) ==
    /\ pc = "getUpdates"
    /\ reply = None
    /\ \E r \in replies : reply' = Some(r)
    /\ UNCHANGED <<counter, pc, request, updates, update, responses, json_resps, outcome,
                   startCounter, seen, advanced, sendLog, acked, invocations, fetch,
                   texts, skipped, failure, outstanding, handled, dups, raw_res, api_res>>

RemoteReplies == RemoteAnswers(FetchReplies)

\* the answer to getUpdates reaches the loop (lines 76-83)
GetUpdatesReturns ==
    /\ pc = "getUpdates"
    /\ reply # None
    /\ LET res == context(call_api(reply[1]), "cannot call telegram for updates")
           parsed == IF res.ok THEN from_value(res.val) ELSE res
       IN /\ fetch' = Some(EnvelopeHead(reply[1]))
          /\ IF parsed.ok
             THEN ForLoop(parsed.val)
             ELSE CycleEnds(SomeErr(parsed.err))
    /\ reply' = None
    /\ texts' = TextCount(reply[1])
    /\ dups' = IF dups = None THEN None ELSE Some(dups[1] \cup DupIds(reply[1]))
    /\ outstanding' = outstanding - 1 + Suspended(pc')
    /\ UNCHANGED <<responses, startCounter, sendLog, acked, failure, raw_res, api_res>>

\* mutant: a failed handler is passed over and the for loop goes on
HandlerResolvesPassesOver(results) ==
    /\ pc = "handler"
    /\ \E res \in results :
         /\ IF ~res.ok
            THEN /\ ForLoop(updates)
                 /\ UNCHANGED <<responses, sendLog, acked>>
            ELSE /\ responses' = res.val
                 /\ acked' = 0
                 /\ IF res.val = <<>>
                    THEN ForLoop(updates) /\ sendLog' = <<>>
                    ELSE SendMessage(JsonResps(res.val), <<>>)
         /\ failure' = IF res.ok THEN failure ELSE "handler"
    /\ outstanding' = outstanding - 1 + Suspended(pc')
    /\ UNCHANGED <<startCounter, fetch, reply, texts, dups, raw_res, api_res>>

\* the handler resolves to one of results (lines 83-89)
HandlerResolves(results) ==
    /\ pc = "handler"
    /\ \E res \in results :
         /\ IF ~res.ok
            THEN /\ CycleEnds(SomeErr(res.err))
                 /\ UNCHANGED <<responses, sendLog, acked>>
            ELSE /\ responses' = res.val
                 /\ acked' = 0
                 /\ IF res.val = <<>>
                    THEN ForLoop(updates) /\ sendLog' = <<>>
                    ELSE SendMessage(JsonResps(res.val), <<>>)
         /\ failure' = IF res.ok THEN failure ELSE "handler"
    /\ outstanding' = outstanding - 1 + Suspended(pc')
    /\ UNCHANGED <<startCounter, fetch, reply, texts, dups, raw_res, api_res>>

HandlerReturns == HandlerResolves(HandlerResults)

\* sendMessage answers (lines 89-94)
SendMessageReturns ==
    /\ pc = "sendMessage"
    /\ \E answer \in SendReplies :
         LET res == context(call_api(answer), "cannot send reply back to telegram")
         IN /\ IF ~res.ok
               THEN /\ CycleEnds(SomeErr(res.err))
                    /\ UNCHANGED <<sendLog, acked>>
               ELSE /\ acked' = acked + 1
                    /\ IF json_resps = <<>>
                       THEN ForLoop(updates) /\ sendLog' = sendLog
                       ELSE SendMessage(json_resps, sendLog)
            /\ failure' = IF answer.transport /\ answer.ok = JBool(TRUE)
                          THEN failure ELSE "send"
    /\ outstanding' = outstanding - 1 + Suspended(pc')
    /\ UNCHANGED <<responses, startCounter, fetch, reply, texts, dups, raw_res, api_res>>

\* mutant: the deadline moves the loop on without dropping the cycle's future
TimeoutDetached ==
    /\ pc \in {"getUpdates", "handler", "sendMessage"}
    /\ pc' = "loop"
    /\ outcome' = TimedOut
    /\ UNCHANGED <<counter, request, updates, update, responses, json_resps,
                   startCounter, seen, advanced, sendLog, acked, invocations, fetch,
                   reply, texts, skipped, failure, outstanding, handled, dups,
                   raw_res, api_res>>

\* the 300 second deadline fires while the cycle is suspended at an await
\* (lines 97, 103): the cycle's future is dropped where it stands
Timeout ==
    /\ pc \in {"getUpdates", "handler", "sendMessage"}
    /\ CycleEnds(TimedOut)
    /\ reply' = None
    /\ outstanding' = 0
    /\ UNCHANGED <<responses, startCounter, sendLog, acked, fetch, texts, failure,
                   dups, raw_res, api_res>>

Next ==
    \/ GetUpdates
    \/ RemoteReplies
    \/ GetUpdatesReturns
    \/ HandlerReturns
    \/ SendMessageReturns
    \/ Timeout

Spec == Init /\ [][Next]_vars

\* The loop under fairness. The executor keeps polling the task, and every
\* await of a cycle either completes or is cut off by the 300 second timer, so
\* some step always follows. Progress does not depend on how long a batch or a
\* handler's answer is; both are kept one shorter than in Spec.
LiveRemoteReplies == RemoteAnswers(FetchRepliesOf(BatchesUpTo(MaxBatch - 1)))
LiveHandlerReturns == HandlerResolves(HandlerResultsUpTo(MaxResps - 1))

LiveNext ==
    \/ GetUpdates
    \/ LiveRemoteReplies
    \/ GetUpdatesReturns
    \/ LiveHandlerReturns
    \/ SendMessageReturns
    \/ Timeout

FairSpec == Init /\ [][LiveNext]_vars /\ WF_vars(LiveNext)

(* --------------------- the loop with an orderly remote ----------------- *)
\* the batches a remote may answer a request from offset with when it returns
\* only updates whose id is an integer at or above the offset
OrderlyBatches(offset) ==
    {b \in Batches : \A i \in 1..Len(b) :
        b[i].update_id.t = "int" /\ b[i].update_id.v >= offset}

OrderlyRemoteReplies ==
    /\ request # None
    /\ RemoteAnswers(FetchRepliesOf(OrderlyBatches(request[1].args.offset)))

\* the loop as in Init, with the record of handler invocations kept
InitOrderly ==
    /\ counter = 0
    /\ pc = "loop"
    /\ request = None
    /\ updates = <<>>
    /\ update = None
    /\ responses = <<>>
    /\ json_resps = <<>>
    /\ outcome = Running
    /\ startCounter = 0
    /\ seen = None
    /\ advanced = None
    /\ sendLog = <<>>
    /\ acked = 0
    /\ invocations = 0
    /\ fetch = None
    /\ reply = None
    /\ texts = 0
    /\ skipped = 0
    /\ failure = "none"
    /\ outstanding = 0
    /\ handled = Some([once |-> {}, again |-> {}])
    /\ dups = Some({})
    /\ raw_res = TransportError
    /\ api_res = Ok(JNull)

OrderlyNext ==
    \/ GetUpdates
    \/ OrderlyRemoteReplies
    \/ GetUpdatesReturns
    \/ HandlerReturns
    \/ SendMessageReturns
    \/ Timeout

OrderlySpec == InitOrderly /\ [][OrderlyNext]_vars

(* ------------- direct calls on the constructed TelegramBot ------------- *)
\* the envelopes a direct call may be answered with
OkValues == {JNull, JBool(TRUE), JBool(FALSE), JStr("true"), JInt(1)}
ErrorCodeValues ==
    {JNull, JStr("403"), JFloat("403.5"), JBool(TRUE), JInt(-1), JInt(0), JInt(403)}
ResultValues == {JNull, JBool(TRUE), JArr(<<>>)}
Envelopes ==
    {TransportError}
    \cup {Envelope(o, r, e) : o \in OkValues, r \in ResultValues, e \in ErrorCodeValues}

\* the responses a caller may hand to send_msg
AllResponses ==
    {Response(t, c, o) : t \in {"", "a", "b"}, c \in -1..MaxChat,
                         o \in {None} \cup {Some(n) : n \in -1..MaxChat}}

\* a caller is about to call send_msg(to_send) or call_api(method, args);
\* the poll loop is left out
InitDirect ==
    /\ counter = 0
    /\ request = None
    /\ updates = <<>>
    /\ update = None
    /\ json_resps = <<>>
    /\ outcome = Running
    /\ startCounter = 0
    /\ seen = None
    /\ advanced = None
    /\ sendLog = <<>>
    /\ acked = 0
    /\ invocations = 0
    /\ fetch = None
    /\ reply = None
    /\ texts = 0
    /\ skipped = 0
    /\ failure = "none"
    /\ outstanding = 0
    /\ handled = None
    /\ dups = None
    /\ raw_res = TransportError
    /\ api_res = Ok(JNull)
    /\ \/ pc = "send_msg" /\ responses \in {<<r>> : r \in AllResponses}
       \/ pc = "call_api" /\ responses = <<>>

\* TelegramBot::send_msg up to its await (lines 41-48)
SendMsg ==
    /\ pc = "send_msg"
    /\ pc' = "send_msg_await"
    /\ request' = Some([method |-> "sendMessage", args |-> resp_json(responses[1])])
    /\ UNCHANGED <<counter, updates, update, responses, json_resps, outcome, startCounter,
                   seen, advanced, sendLog, acked, invocations, fetch, raw_res, api_res,
                   reply, texts, skipped, failure, outstanding, handled, dups>>

\* TelegramBot::send_msg from its await on (lines 48-50)
SendMsgReturns ==
    /\ pc = "send_msg_await"
    /\ pc' = "send_msg_returned"
    /\ \E answer \in Envelopes :
         /\ raw_res' = answer
         /\ api_res' = context(call_api(answer), "cannot send reply back to telegram")
    /\ UNCHANGED <<counter, request, updates, update, responses, json_resps, outcome,
                   startCounter, seen, advanced, sendLog, acked, invocations, fetch,
                   reply, texts, skipped, failure, outstanding, handled, dups>>

\* TelegramBot::call_api (lines 53-55)
CallApi ==
    /\ pc = "call_api"
    /\ pc' = "call_api_returned"
    /\ \E answer \in Envelopes :
         /\ raw_res' = answer
         /\ api_res' = call_api(answer)
    /\ UNCHANGED <<counter, request, updates, update, responses, json_resps, outcome,
                   startCounter, seen, advanced, sendLog, acked, invocations, fetch,
                   reply, texts, skipped, failure, outstanding, handled, dups>>

NextDirect ==
    \/ SendMsg
    \/ SendMsgReturns
    \/ CallApi

DirectSpec == InitDirect /\ [][NextDirect]_vars

(* ------------------------------ claims --------------------------------- *)
\* the last cycle was abandoned: it failed, or the deadline cut it off
Abandoned == pc = "loop" /\ outcome.kind \in {"err", "timeout"}
\* the cursor a cycle must end with: the start cursor raised to the ids it reached
CursorOver(start, mark) == IF mark = None THEN start ELSE max(start, mark[1])
\* the step that abandons a cycle in which a handler had been invoked
AbandonsHandling ==
    /\ pc \in {"handler", "sendMessage"}
    /\ pc' = "loop"
    /\ outcome'.kind \in {"err", "timeout"}
\* the fetched updates the for loop has not reached, as a set
Unreached == {updates[i] : i \in 1..Len(updates)}
HasIntId(u) == u.update_id.t = "int"

\* C1 as stated: after an abandoned cycle the cursor equals the cursor at the
\* start of that cycle, so the next getUpdates (offset = cursor + 1) repeats the
\* abandoned cycle's offset.
C1_AbandonedCycleKeepsStartCursor == Abandoned => counter = startCounter

\* C1 amended: after an abandoned cycle the cursor equals the start cursor raised
\* to the highest update id the cycle reached before it was abandoned; the
\* advances made for the updates it partially saw are kept.
C1_AbandonedCycleKeepsAdvances == Abandoned => counter = CursorOver(startCounter, seen)

\* C1 witness: a cycle was abandoned after it had advanced the cursor.
C1_Witness == Abandoned /\ counter > startCounter

\* C2 as stated: when a cycle is abandoned, every text-bearing update of the
\* batch that was not completely handled (the one in the handler's hands and the
\* ones not reached) has an id at or above the next getUpdates offset. Only
\* updates the request asked for (id at or above its offset) are looked at.
C2_AtLeastOnce ==
    [][AbandonsHandling =>
        \A u \in {update[1]} \cup Unreached :
            (HasText(u) /\ HasIntId(u) /\ u.update_id.v > startCounter)
                => counter' + 1 <= u.update_id.v]_vars

\* C2 amended: when a cycle is abandoned, the update in the handler's hands is
\* below the next getUpdates offset (it is not requested again), and a
\* text-bearing update not yet reached is requested again exactly when its id
\* is above the cursor the cycle had reached.
C2_AtMostOnceForReached ==
    [][AbandonsHandling =>
        /\ HasIntId(update[1]) => counter' + 1 > update[1].update_id.v
        /\ counter' = counter
        /\ \A u \in Unreached :
             (HasText(u) /\ HasIntId(u)) =>
                 (counter' + 1 <= u.update_id.v <=> u.update_id.v > CursorOver(startCounter, seen))]_vars

\* C2 witness: the handler failed for an update whose id the cursor had just
\* been advanced to.
C2_Witness ==
    /\ Abandoned
    /\ outcome.err = <<"handler error">>
    /\ seen = Some(counter)
    /\ invocations = 1
    /\ counter > startCounter

\* C3: the cursor starts at 0 and no step lowers it.
C3_CursorMonotonic == counter = 0 /\ [][counter' >= counter]_vars

\* C3 witness: a cycle ran over updates whose ids are all below the cursor.
C3_Witness ==
    /\ pc = "loop"
    /\ outcome.kind = "ok"
    /\ seen # None
    /\ seen[1] < counter

\* C4: after a cycle that processed all its updates the cursor equals the
\* highest update id fetched, taken together with the prior cursor.
C4_CursorIsMaxFetched ==
    (pc = "loop" /\ outcome.kind = "ok") => counter = CursorOver(startCounter, seen)

\* C4 witness: a cycle in which every update was skipped advanced the cursor.
C4_Witness ==
    /\ pc = "loop"
    /\ outcome.kind = "ok"
    /\ invocations = 0
    /\ counter > startCounter

\* the getUpdates call of the cycle was answered, and not with ok = true
FetchFailed == fetch # None /\ ~(fetch[1].transport /\ fetch[1].ok = JBool(TRUE))

\* C5: once getUpdates has failed the cycle is over with an error, no handler
\* was invoked, no sendMessage was issued and the cursor is where it was.
C5_FailedFetchAbandonsCycle ==
    FetchFailed =>
        /\ pc = "loop"
        /\ outcome.kind = "err"
        /\ invocations = 0
        /\ sendLog = <<>>
        /\ counter = startCounter

\* C5 witness: getUpdates was rejected with error_code 403 after the cursor
\* had moved off 0.
C5_Witness ==
    /\ FetchFailed
    /\ fetch[1].error_code = JInt(403)
    /\ counter > 0
    /\ pc = "loop"

\* C6: the loop never stops: it issues getUpdates again and again, and every
\* abandoned cycle (fetch, envelope, handler or send failure, deadline expiry)
\* is followed by a new getUpdates call.
C6_LoopNeverStops ==
    /\ []<>(pc = "getUpdates")
    /\ (Abandoned ~> pc = "getUpdates")

\* C6 witness: a cycle was cut off by the deadline while its handler was running
\* and the loop is back at its head.
C6_Witness == Abandoned /\ outcome = TimedOut /\ invocations = 1

\* C7: the sendMessage calls issued for an update are a prefix of the handler's
\* responses, in the handler's order; a call is issued only when every earlier
\* one has completed successfully; once the loop has moved on, each response was
\* sent exactly once.
C7_RepliesInOrder ==
    LET want == JsonResps(responses) IN
    /\ Len(sendLog) <= Len(want)
    /\ \A i \in 1..Len(sendLog) : sendLog[i] = want[i]
    /\ acked <= Len(sendLog)
    /\ Len(sendLog) <= acked + 1
    /\ pc = "sendMessage" =>
         /\ Len(sendLog) = acked + 1
         /\ request = Some([method |-> "sendMessage", args |-> want[Len(sendLog)]])
         /\ Len(json_resps) = Len(want) - Len(sendLog)
         /\ \A i \in 1..Len(json_resps) : json_resps[i] = want[Len(sendLog) + i]
    /\ (pc = "handler" \/ (pc = "loop" /\ outcome.kind = "ok")) =>
         (acked = Len(want) /\ Len(sendLog) = Len(want))

\* C7 witness: two different responses were both sent and the cycle completed.
C7_Witness ==
    /\ pc = "loop"
    /\ outcome.kind = "ok"
    /\ Len(responses) = 2
    /\ responses[1] # responses[2]
    /\ acked = 2

\* the errors call_api reports for an API rejection
ApiRejections == {Err(<<"telegram failed with error code", n>>) : n \in -1..403}
\* the error call_api reports for a malformed envelope
MalformedEnvelope == Err(<<"could not parse error code as integer">>)

\* C8: call_api on a parsed envelope: ok = true gives the result; otherwise an
\* integer error_code gives the API rejection carrying that code, and any other
\* error_code gives the malformed-envelope error, which is no API rejection.
C8_EnvelopeClassified ==
    (pc = "call_api_returned" /\ raw_res.transport) =>
        IF raw_res.ok = JBool(TRUE) THEN api_res = Ok(raw_res.result)
        ELSE IF raw_res.error_code.t = "int"
             THEN api_res = Err(<<"telegram failed with error code", raw_res.error_code.v>>)
             ELSE api_res = MalformedEnvelope /\ api_res \notin ApiRejections

\* C8 witness: ok = false without an error_code was answered.
C8_Witness ==
    /\ pc = "call_api_returned"
    /\ raw_res.transport
    /\ raw_res.ok = JBool(FALSE)
    /\ raw_res.error_code = JNull

\* C9: the payload send_msg posts holds the response's chat_id and text, and
\* holds reply_to_message_id exactly when the response has one, with its value.
C9_PayloadShape ==
    pc \in {"send_msg_await", "send_msg_returned"} =>
        LET resp == responses[1]
            payload == request[1].args
        IN /\ payload.chat_id = resp.chat_id
           /\ payload.text = resp.text
           /\ resp.reply_to_message_id = None =>
                DOMAIN payload = {"chat_id", "text"}
           /\ resp.reply_to_message_id # None =>
                /\ DOMAIN payload = {"chat_id", "text", "reply_to_message_id"}
                /\ payload.reply_to_message_id = resp.reply_to_message_id[1]

\* C9 witness: a response replying to message 0 was shaped.
C9_Witness ==
    /\ pc = "send_msg_await"
    /\ responses[1].reply_to_message_id = Some(0)

\* C10: a getUpdates request in flight carries timeout 120, no allowed_updates
\* and offset cursor + 1; the offset is 1 while no update has been reached, and
\* above the id of every update the loop has advanced the cursor past.
C10_GetUpdatesRequest ==
    pc = "getUpdates" =>
        /\ request = Some([method |-> "getUpdates",
                           args |-> [timeout |-> 120, offset |-> counter + 1,
                                     allowed_updates |-> <<>>]])
        /\ advanced = None => request[1].args.offset = 1
        /\ advanced # None => request[1].args.offset > advanced[1]

\* C10 witness: a request is in flight after the cursor has been advanced.
C10_Witness ==
    /\ pc = "getUpdates"
    /\ advanced # None
    /\ request[1].args.offset > 1

(* ------------------- the for loop, step by step ------------------------ *)
\* the batch the answer in flight hands to the for loop, empty when the
\* answer fails the cycle
Fetched ==
    IF /\ reply # None
       /\ reply[1].transport
       /\ reply[1].ok = JBool(TRUE)
       /\ reply[1].result.t = "array"
    THEN reply[1].result.v
    ELSE <<>>
\* the updates the for loop has before it when the awaited call returns
Ahead == IF pc = "getUpdates" THEN Fetched ELSE updates
\* a step in which the for loop runs on, to the next handler call or to its end
RunsOn ==
    /\ pc \in {"getUpdates", "handler", "sendMessage"}
    /\ \/ pc' = "handler"
       \/ pc' = "loop" /\ outcome'.kind = "ok"
\* the updates such a step goes over
Passed == SubSeq(Ahead, 1, Len(Ahead) - Len(updates'))
TextLess(u) == u.message.text = JNull

\* C11 as stated: the handler is invoked only for updates whose message text is
\* present and non-empty; an update with absent, null or empty text is skipped.
C11_EmptyTextSkipped ==
    pc \in {"handler", "sendMessage"} =>
        /\ update # None
        /\ update[1].message.text \notin {JNull, JStr("")}

\* C11 amended: an update whose message text is absent or null is skipped (no
\* handler call, no sendMessage) and the cursor still advances over its id; every
\* update whose text is present, the empty string included, goes to the handler.
C11_NullTextSkipped ==
    /\ [](pc \in {"handler", "sendMessage"} => update # None /\ ~TextLess(update[1]))
    /\ [][RunsOn =>
            /\ request' = None
            /\ skipped' = skipped + Cardinality({i \in 1..Len(Passed) : TextLess(Passed[i])})
            /\ \A i \in 1..Len(Passed) :
                 /\ HasIntId(Passed[i]) => counter' >= Passed[i].update_id.v
                 /\ TextLess(Passed[i]) => ~(pc' = "handler" /\ i = Len(Passed))
                 /\ ~TextLess(Passed[i]) =>
                      /\ pc' = "handler"
                      /\ i = Len(Passed)
                      /\ update' = Some(Passed[i])]_vars

\* C11 witness: the handler is invoked for an update with empty text after an
\* update without text was skipped and the cursor advanced.
C11_Witness ==
    /\ pc = "handler"
    /\ update[1].message.text = JStr("")
    /\ skipped = 1
    /\ counter > 0

\* C12: in a cycle that completes without failure the handler has been invoked
\* once for each fetched update carrying text and for no other; the invocations
\* come in fetch order: each one takes the first update with text among those
\* the for loop has before it, and the loop goes on with the updates after it.
C12_HandlerOncePerTextInOrder ==
    /\ []((pc = "loop" /\ outcome.kind = "ok") => invocations = texts)
    /\ [][/\ (RunsOn /\ pc' = "handler") =>
              /\ Passed # <<>>
              /\ update' = Some(Passed[Len(Passed)])
              /\ ~TextLess(update'[1])
              /\ \A i \in 1..(Len(Passed) - 1) : TextLess(Passed[i])
              /\ updates' = SubSeq(Ahead, Len(Passed) + 1, Len(Ahead))
              /\ invocations' = invocations + 1
          /\ (RunsOn /\ pc' = "loop") =>
              /\ Passed = Ahead
              /\ \A i \in 1..Len(Passed) : TextLess(Passed[i])
              /\ invocations' = invocations
          /\ (~RunsOn /\ pc # "loop") => invocations' = invocations]_vars

\* C12 witness: a cycle begun with the cursor at 0 completed after fetching two
\* updates of which one carried text: one invocation, the cursor at 2.
C12_Witness ==
    /\ pc = "loop"
    /\ outcome.kind = "ok"
    /\ startCounter = 0
    /\ counter = 2
    /\ seen = Some(2)
    /\ texts = 1
    /\ skipped = 1
    /\ invocations = 1

\* C13: when the handler fails for an update, or a sendMessage call for one of
\* its responses fails, the cycle ends there with an error: that step issues no
\* request and invokes no handler, the responses and updates not yet reached
\* are dropped, and nothing is sent or handled until the next cycle begins.
C13_FailureAbandonsRest ==
    /\ [](failure # "none" =>
            /\ pc = "loop"
            /\ outcome.kind = "err"
            /\ request = None
            /\ updates = <<>>
            /\ json_resps = <<>>
            /\ failure = "handler" => Len(sendLog) = acked
            /\ failure = "send" => Len(sendLog) = acked + 1)
    /\ [][(failure = "none" /\ failure' # "none") =>
            /\ pc \in {"handler", "sendMessage"}
            /\ pc' = "loop"
            /\ sendLog' = sendLog
            /\ invocations' = invocations
            /\ counter' = counter]_vars

\* C13 witness: the first sendMessage of two responses failed in a cycle that
\* had fetched two updates with text; one response and one update were dropped.
C13_Witness ==
    /\ pc = "loop"
    /\ failure = "send"
    /\ Len(responses) = 2
    /\ Len(sendLog) = 1
    /\ acked = 0
    /\ texts = 2
    /\ invocations = 1

\* C14: the loop never overlaps its own operations: at most one getUpdates,
\* handler or sendMessage call is outstanding, and it is the one the loop is
\* suspended at; a getUpdates is issued only from between cycles, where nothing
\* is outstanding; and once a cycle has ended, by completion, failure or
\* deadline, no call, update or payload of it is left to act in the next one.
C14_NoOverlap ==
    /\ [](/\ outstanding = Suspended(pc)
          /\ outstanding <= 1
          /\ pc = "loop" =>
               /\ request = None /\ reply = None /\ update = None
               /\ updates = <<>> /\ json_resps = <<>>
          /\ pc = "getUpdates" =>
               /\ request # None /\ request[1].method = "getUpdates"
               /\ update = None /\ updates = <<>> /\ json_resps = <<>>
          /\ pc = "handler" => request = None /\ reply = None /\ update # None
          /\ pc = "sendMessage" =>
               /\ request # None /\ request[1].method = "sendMessage"
               /\ reply = None /\ update # None)
    /\ [][/\ pc' = "getUpdates" => pc \in {"loop", "getUpdates"}
          /\ (pc = "loop" /\ pc' # "loop") =>
               /\ pc' = "getUpdates"
               /\ outcome' = Running
               /\ sendLog' = <<>>
               /\ invocations' = 0
          /\ (pc # "loop" /\ pc' = "loop") => outstanding' = 0]_vars

\* C14 witness: the deadline cut a cycle off while its first sendMessage was
\* outstanding; nothing of the cycle is outstanding afterwards.
C14_Witness ==
    /\ pc = "loop"
    /\ outcome = TimedOut
    /\ invocations = 1
    /\ Len(sendLog) = 1
    /\ acked = 0
    /\ outstanding = 0

(* ------------ at most one handler invocation per update id ------------- *)
\* the handler is suspended on an update with an integer id
Handling == pc = "handler" /\ HasIntId(update[1])

\* C15 as stated: at every handler invocation the cursor is at least the
\* update's id, and with a remote that returns only updates with an id at or
\* above the requested offset no update id goes to the handler twice.
C15_AtMostOncePerId ==
    /\ Handling => counter >= update[1].update_id.v
    /\ handled[1].again = {}

\* C15 amended: at every handler invocation the cursor is at least the update's
\* id, and with a remote that returns only updates with an id at or above the
\* requested offset an update id goes to the handler a second time only when
\* the remote returned that id more than once within a single result.
C15_AtMostOncePerDistinctId ==
    /\ Handling => counter >= update[1].update_id.v
    /\ handled[1].again \subseteq dups[1]

\* C15 witness: after the handler was invoked for id 1 in an earlier cycle, a
\* later cycle, asking from offset 2, hands it id 2; no result repeated an id.
C15_Witness ==
    /\ Handling
    /\ update[1].update_id.v = 2
    /\ startCounter = 1
    /\ handled[1].once = {1, 2}
    /\ dups[1] = {}

====
